---- MODULE Spec2Model ----
(***************************************************************************)
(* picturebot (pic_bot.py): the history store (NvMHandler), the post       *)
(* selection (RedditCrawler.get_post), the dispatch (Picturebot.           *)
(* send_picture) and the command router (Picturebot.process_commands).     *)
(*                                                                         *)
(* Python values are modelled as follows.  A dict such as posts.pickle is  *)
(* a function over Subreddits whose value <<>> stands for "key absent"     *)
(* (the code never stores an empty list).  A post dict is a sequence that  *)
(* is empty for None / {} (both falsy) and holds one record otherwise.     *)
(* The same holds for the fetched data (None or the list of children) and  *)
(* for the stored update id ({} when the file is absent).  A title is a    *)
(* sequence of characters; lists are 1-based here, so the code's           *)
(* children[i] is children[i + 1].                                         *)
(***************************************************************************)
EXTENDS Integers, Sequences, FiniteSets, TLC

VARIABLES
    posts_pickle,      \* the file posts.pickle: subreddit -> list of post ids
    update_id_pickle,  \* the file update_id.pickle: <<>> (absent) or <<update id>>
    test,              \* args.test of this run
    commands,          \* Picturebot._commands
    reddit,            \* which answers the reddit API can give in this run
    inbox,             \* the platform's updates, inbox[k] has update_id k
    pending,           \* process_commands: updates of the batch not yet dispatched
    call,              \* the last get_post / send_picture invocation and its outcome
    selected,          \* per subreddit, the post ids get_post has returned so far
    router,            \* the last step of process_commands and its outcome
    cycles,            \* number of get_post invocations so far
    dispatched,        \* the iterations of the for loop of process_commands so far
    late,              \* ids of the updates that arrived while a cursor was stored
    now,               \* datetime.now(), in minutes since a Monday 00:00
    trigger_executed,  \* main: trigger_executed, per trigger
    pos,               \* main: 0 before process_commands, idx at trigger idx, -1 ended
    this_minute        \* per trigger, what the loop did with it in the minute now

vars == <<posts_pickle, update_id_pickle, test, commands, reddit, inbox,
          pending, call, selected, router, cycles, dispatched, late,
          now, trigger_executed, pos, this_minute>>

loop_vars == <<now, trigger_executed, pos, this_minute>>

None == "None"

------------------------------------------------------------------------------
(* Bounds of the model                                                      *)

MaxCycles == 2      \* get_post invocations per behaviour
MaxUpdates == 3     \* updates that reach the platform per behaviour
MaxMinutes == 3     \* minutes the clock advances in a run of the loop

(* Program constants                                                        *)

max_length == 10    \* NvMHandler._crop_data(max_length=10)
max_retries == 10   \* RedditCrawler.get_post(max_retries=10)

------------------------------------------------------------------------------
(* Configuration (config.json)                                              *)

Subreddits == {"r", "s"}

\* filter_regex: subreddit "r" must match the pattern c (a literal), "s" has
\* no entry.
filter_regex == [x \in {"r"} |-> <<"c">>]

get_chat_id(t) == IF t THEN "test_group_id" ELSE "group_id"

activation_prefix == "/picbot"

------------------------------------------------------------------------------
(* NvMHandler                                                               *)

\* a crop that keeps the oldest entries, data[key][:max_length]
FirstN(s, n) == IF Len(s) <= n THEN s ELSE SubSeq(s, 1, n)

\* data[key][-max_length:]
LastN(s, n) == IF Len(s) <= n THEN s ELSE SubSeq(s, Len(s) - n + 1, Len(s))

_crop_data(data) == [key \in DOMAIN data |-> LastN(data[key], max_length)]

\* an update that starts the list anew, data[subreddit] = [post_id]
update_overwrite(data, subreddit, post_id) ==
    _crop_data([data EXCEPT ![subreddit] = <<post_id>>])

update(data, subreddit, post_id) ==
    _crop_data([data EXCEPT ![subreddit] = Append(data[subreddit], post_id)])

------------------------------------------------------------------------------
(* RedditCrawler                                                            *)

EmptyPost == <<>>

\* data = None of get_subreddit_posts_from_api
NoData == <<>>

\* re.compile(regex).match(title) for a literal pattern: the pattern is a
\* prefix of the title.
does_post_match(title, regex) ==
    /\ Len(regex) <= Len(title)
    /\ SubSeq(title, 1, Len(regex)) = regex

\* a membership test that looks at the newest entry only
is_newest_post(latest_posts, subreddit, post_id) ==
    IF latest_posts[subreddit] # <<>>
    THEN latest_posts[subreddit][Len(latest_posts[subreddit])] = post_id
    ELSE FALSE

is_post_in_latest_posts(latest_posts, subreddit, post_id) ==
    IF latest_posts[subreddit] # <<>>
    THEN \E k \in DOMAIN latest_posts[subreddit] :
            latest_posts[subreddit][k] = post_id
    ELSE FALSE

\* An entry of posts['data']['children'][i]['data']: preview is "absent" (no
\* 'preview' key), "image" or "video" ('reddit_video_preview' in it); missing
\* holds the keys that are absent from the entry or null.
_get_post_at_position(posts, i) ==
    IF posts # NoData
    THEN LET data == posts[1][i + 1]
             is_video == data.preview = "video"
             media_key == IF is_video THEN "fallback_url" ELSE "url"
         IN  IF data.preview = "absent"
             THEN EmptyPost
             ELSE IF {media_key, "title", "id"} \cap data.missing = {}
                  THEN << [title |-> data.title,
                           media_url |-> data[media_key],
                           post_id |-> data.id,
                           is_video |-> is_video] >>
                  ELSE EmptyPost
    ELSE EmptyPost

\* The for loop of get_post from iteration i on; post is the value the
\* variable post holds when the iteration starts.
RECURSIVE scan(_, _, _, _, _, _)
scan(posts, sub_reddit, latest_posts, n, i, post) ==
    IF i >= n
    THEN [post |-> post, checked |-> i]
    ELSE LET p == _get_post_at_position(posts, i)
         IN  IF p # EmptyPost
             THEN LET q == << [title |-> p[1].title,
                               media_url |-> p[1].media_url,
                               post_id |-> p[1].post_id,
                               is_video |-> p[1].is_video,
                               sub_reddit |-> sub_reddit] >>
                  IN  IF /\ sub_reddit \in DOMAIN filter_regex
                         /\ ~does_post_match(q[1].title, filter_regex[sub_reddit])
                      THEN scan(posts, sub_reddit, latest_posts, n, i + 1, q)
                      ELSE IF is_post_in_latest_posts(latest_posts, sub_reddit,
                                                      q[1].post_id)
                           THEN scan(posts, sub_reddit, latest_posts, n, i + 1, q)
                           ELSE [post |-> q, checked |-> i + 1]
             ELSE scan(posts, sub_reddit, latest_posts, n, i + 1, p)

\* the number of entries taken as the limit, whatever max_retries is
First(a, b) == a

Min(a, b) == IF a <= b THEN a ELSE b

\* a get_post that returns the post without recording it
get_post_unrecorded(posts, sub_reddit, budget, stored) ==
    IF posts = NoData
    THEN [raised |-> "TypeError", post |-> EmptyPost, checked |-> 0,
          stored |-> stored]
    ELSE LET n == Min(Len(posts[1]), budget)
             s == scan(posts, sub_reddit, stored, n, 0, EmptyPost)
         IN  [raised |-> "none", post |-> s.post, checked |-> s.checked,
              stored |-> stored]

\* get_post: the post it returns, the number of entries it examined, what it
\* leaves in posts.pickle and the exception it raises ("none" when it
\* returns).  posts = None makes posts['data'] raise TypeError.
get_post(posts, sub_reddit, budget, stored) ==
    IF posts = NoData
    THEN [raised |-> "TypeError", post |-> EmptyPost, checked |-> 0,
          stored |-> stored]
    ELSE LET n == Min(Len(posts[1]), budget)
             s == scan(posts, sub_reddit, stored, n, 0, EmptyPost)
         IN  [raised |-> "none", post |-> s.post, checked |-> s.checked,
              stored |-> IF s.post # EmptyPost
                         THEN update(stored, sub_reddit, s.post[1].post_id)
                         ELSE stored]

\* get_subreddit_posts_from_api: only HTTPError is caught (data stays None),
\* any other failure of urlopen / json.loads propagates.
get_subreddit_posts_from_api(fetch) ==
    IF fetch.status = "ok"
    THEN [raised |-> "none", data |-> <<fetch.children>>]
    ELSE IF fetch.status = "HTTPError"
         THEN [raised |-> "none", data |-> NoData]
         ELSE [raised |-> fetch.status, data |-> NoData]

------------------------------------------------------------------------------
(* TelegramBot                                                              *)

send_message(chat_id, msg, media, is_video) ==
    [method |-> IF media = None THEN "sendMessage"
                ELSE IF is_video THEN "sendVideo" ELSE "sendPhoto",
     chat_id |-> chat_id, msg |-> msg, media |-> media]

------------------------------------------------------------------------------
(* Picturebot.send_picture                                                  *)

NotFoundText == <<"Did not find an adequate post. Tired of searching...">>

\* send_picture for the chosen subreddit: fetch is what the reddit API
\* answers, send_ok whether the telegram call succeeds.  The result holds
\* what is left in posts.pickle and a record of the invocation.
send_picture(sub_reddit, t, fetch, send_ok, stored) ==
    LET chat_id == get_chat_id(t)
        api == get_subreddit_posts_from_api(fetch)
        g == get_post(api.data, sub_reddit, max_retries, stored)
        message == IF g.post # EmptyPost
                   THEN send_message(chat_id,
                                     <<g.post[1].sub_reddit, ": ">> \o g.post[1].title,
                                     g.post[1].media_url, g.post[1].is_video)
                   ELSE send_message(chat_id, NotFoundText, None, FALSE)
        base == [op |-> "send_picture", sub_reddit |-> sub_reddit,
                 fetch |-> fetch.status, posts |-> api.data,
                 budget |-> max_retries, before |-> stored]
    IN  IF api.raised # "none"
        THEN [stored |-> stored,
              call |-> base @@ [raised |-> api.raised, post |-> EmptyPost,
                                checked |-> 0, sends |-> <<>>, send_ok |-> TRUE]]
        ELSE IF g.raised # "none"
             THEN [stored |-> g.stored,
                   call |-> base @@ [raised |-> g.raised, post |-> EmptyPost,
                                     checked |-> 0, sends |-> <<>>, send_ok |-> TRUE]]
             ELSE [stored |-> g.stored,
                   call |-> base @@ [raised |-> IF send_ok THEN "none" ELSE "SendError",
                                     post |-> g.post, checked |-> g.checked,
                                     sends |-> <<message>>, send_ok |-> send_ok]]

------------------------------------------------------------------------------
(* Picturebot.process_commands                                              *)

\* Picturebot._commands: the one command of the source.
_commands ==
    << [command_string |-> "MakeMeHappy", command_function |-> "_make_me_happy",
        command_requires_admin |-> FALSE] >>

\* The same table with a second entry that requires admin.  The source has
\* no such command; it makes the admin branch of process_commands reachable.
AdminCommands ==
    _commands \o
    << [command_string |-> "MakeAdminHappy", command_function |-> "_make_me_happy",
        command_requires_admin |-> TRUE] >>

\* str.lower() on the words that occur
Lower(w) ==
    CASE w = "MakeMeHappy" -> "makemehappy"
      [] w = "MakeAdminHappy" -> "makeadminhappy"
      [] OTHER -> w

\* A text is a sequence of words and single blanks " " (no two words are
\* adjacent).  text.split(' '): the words between the blanks, "" where
\* there is none.
RECURSIVE split(_)
split(text) ==
    IF text = <<>>
    THEN <<"">>
    ELSE IF Head(text) = " "
         THEN <<"">> \o split(Tail(text))
         ELSE IF Len(text) = 1
              THEN <<Head(text)>>
              ELSE <<Head(text)>> \o split(Tail(Tail(text)))

\* text.startswith(prefix), the prefix being one word
startswith(text, prefix) == text # <<>> /\ Head(text) = prefix

\* next((command for command in self._commands if ...), None)
RECURSIVE find_command(_, _)
find_command(table, command_name) ==
    IF table = <<>>
    THEN <<>>
    ELSE IF Lower(Head(table).command_string) = Lower(command_name)
         THEN <<Head(table)>>
         ELSE find_command(Tail(table), command_name)

\* an admin check that also accepts the status 'member'
is_chat_member(chat_id, user_id) == user_id \in {"admin", "member"}

\* getChatMember(chat_id, user_id)['status'] in ['creator', 'administrator']
is_admin(chat_id, user_id) == user_id = "admin"

\* getUpdates() without the offset, whatever is stored
get_updates_all(update_id, box) == box

\* TelegramBot.get_updates: getUpdates(update_id) answers the updates whose
\* id is at least update_id, getUpdates() all of them, oldest first.
get_updates(update_id, box) ==
    IF update_id # <<>>
    THEN SelectSeq(box, LAMBDA u : u.update_id >= update_id[1])
    ELSE box

\* a poll that takes every update it gets as new (no update dropped)
poll_all(last_update_id, box) ==
    LET updates == get_updates(last_update_id, box)
    IN  IF Len(updates) > 0
        THEN [returned |-> Len(updates), new |-> TRUE, updates |-> updates,
              update_id |-> <<updates[Len(updates)].update_id>>]
        ELSE [returned |-> Len(updates), new |-> FALSE, updates |-> <<>>,
              update_id |-> last_update_id]

\* a poll that drops the first update only when a cursor was stored
poll_after_cursor(last_update_id, box) ==
    LET updates == get_updates(last_update_id, box)
        rest == IF last_update_id = <<>> THEN updates ELSE Tail(updates)
    IN  IF Len(updates) > 1
        THEN [returned |-> Len(updates), new |-> TRUE, updates |-> rest,
              update_id |-> <<updates[Len(updates)].update_id>>]
        ELSE [returned |-> Len(updates), new |-> FALSE, updates |-> <<>>,
              update_id |-> last_update_id]

\* a poll that stores the id of the oldest update it is about to process
poll_oldest_cursor(last_update_id, box) ==
    LET updates == get_updates(last_update_id, box)
    IN  IF Len(updates) > 1
        THEN [returned |-> Len(updates), new |-> TRUE, updates |-> Tail(updates),
              update_id |-> <<Tail(updates)[1].update_id>>]
        ELSE [returned |-> Len(updates), new |-> FALSE, updates |-> <<>>,
              update_id |-> last_update_id]

\* process_commands up to its for loop (lines 347-360): the updates left to
\* process and what update_id.pickle holds afterwards
poll(last_update_id, box) ==
    LET updates == get_updates(last_update_id, box)
    IN  IF Len(updates) > 1
        THEN [returned |-> Len(updates), new |-> TRUE, updates |-> Tail(updates),
              update_id |-> <<Tail(updates)[Len(updates) - 1].update_id>>]
        ELSE [returned |-> Len(updates), new |-> FALSE, updates |-> <<>>,
              update_id |-> last_update_id]

\* One iteration of "for update in updates" up to the call of the command
\* function: what the iteration decides for this update.
\*   raised: the exception that ends process_commands, "none" otherwise
\*   invoke: whether command_function(command_param, test) is called
dispatch(upd, t, table) ==
    LET chat == upd.message.chat
        text == upd.message.text
        command_split == split(text)
        command_name == command_split[2]
        command_param == IF Len(command_split) = 3 THEN command_split[3] ELSE None
        command == find_command(table, command_name)
        command_permissions ==
            IF command[1].command_requires_admin
            THEN is_admin(chat.id, upd.message.from.id)
            ELSE TRUE
        quiet == [raised |-> "none", invoke |-> FALSE, command |-> None,
                  param |-> None, flag |-> t]
    IN  IF ~(chat.type \in {"supergroup", "group"} /\ chat.id = get_chat_id(t))
        THEN quiet
        ELSE IF ~startswith(text, activation_prefix)
        THEN quiet
        ELSE IF Len(command_split) < 2
        THEN [quiet EXCEPT !.raised = "IndexError"]
        ELSE IF command = <<>>
        THEN quiet
        ELSE IF command_permissions
        THEN [raised |-> "none", invoke |-> TRUE,
              command |-> command[1].command_string,
              param |-> command_param, flag |-> t]
        ELSE IF upd.message.from.last_name
        THEN [quiet EXCEPT !.command = command[1].command_string]
        ELSE [quiet EXCEPT !.command = command[1].command_string,
                           !.raised = "KeyError"]

------------------------------------------------------------------------------
(* The environment: what the reddit API can answer                          *)

Entry(id, title, preview, missing) ==
    [id |-> id, title |-> title, preview |-> preview,
     url |-> "img", fallback_url |-> "vid", missing |-> missing]

BodyIds == {1, 11}

\* a photo whose title matches c, a video whose title has c but not at its
\* start, a photo whose title is null
BodyEntries ==
    UNION { { Entry(id, <<"c", "a">>, "image", {}),
              Entry(id, <<"d", "c">>, "video", {}),
              Entry(id, <<>>, "image", {"title"}) } : id \in BodyIds }

DistinctIds(s) == \A i, j \in DOMAIN s : i # j => s[i].id # s[j].id

\* post ids are unique within a listing
Bodies ==
    UNION { { s \in [1..n -> BodyEntries] : DistinctIds(s) } :
            n \in 0..Cardinality(BodyIds) }

\* k media-less posts (self posts) ahead of the body, newest first
Pad(k) == [j \in 1..k |-> Entry(100 + j, <<"c", "a">>, "absent", {})]

PadLens == {0, max_retries - 1}

Listings == { Pad(k) \o b : k \in PadLens, b \in Bodies }

Fetches ==
    { [status |-> "ok", children |-> l] : l \in Listings }
    \cup { [status |-> e, children |-> <<>>] : e \in {"HTTPError", "URLError"} }

EmptyHistory == [x \in Subreddits |-> <<>>]

\* posts.pickle as an earlier run can have left it
InitHistories ==
    { EmptyHistory,
      [x \in Subreddits |-> IF x = "r" THEN [k \in 1..max_length |-> k] ELSE <<>>] }

\* the answers of the reddit API in the runs of the command router
FewFetches ==
    { [status |-> "ok", children |-> << Entry(11, <<"c", "a">>, "image", {}) >>],
      [status |-> "HTTPError", children |-> <<>>] }

Answers == IF reddit = "few" THEN FewFetches ELSE Fetches

Message(chat_id, from_id, last_name, text) ==
    [chat |-> [type |-> "group", id |-> chat_id],
     from |-> [id |-> from_id, last_name |-> last_name],
     text |-> text]

\* what users can write: in the group, the command with and without a
\* parameter, the admin command from a member (with and without a last
\* name) and from an admin, the prefix alone, an unknown command, plain
\* talk; and the command in the test group
Messages ==
    { Message("group_id", "member", TRUE, <<"/picbot", " ", "MakeMeHappy">>),
      Message("group_id", "member", TRUE, <<"/picbot", " ", "makemehappy", " ", "s">>),
      Message("group_id", "member", TRUE, <<"/picbot", " ", "MakeAdminHappy">>),
      Message("group_id", "member", FALSE, <<"/picbot", " ", "MakeAdminHappy">>),
      Message("group_id", "admin", TRUE, <<"/picbot", " ", "MakeAdminHappy">>),
      Message("group_id", "member", TRUE, <<"/picbot">>),
      Message("group_id", "member", TRUE, <<"/picbot", " ", "nope">>),
      Message("group_id", "member", TRUE, <<"hello">>),
      Message("test_group_id", "member", TRUE, <<"/picbot", " ", "MakeMeHappy">>) }

NoStep ==
    [step |-> "none", update_id |-> 0, raised |-> "none", invoke |-> FALSE,
     command |-> None, param |-> None, flag |-> FALSE,
     cursor_before |-> <<>>, returned |-> 0]

NoCall ==
    [op |-> "none", sub_reddit |-> None, fetch |-> "none", posts |-> NoData,
     budget |-> 0, before |-> EmptyHistory, raised |-> "none", post |-> EmptyPost,
     checked |-> 0, sends |-> <<>>, send_ok |-> TRUE]

\* Configuration.get_triggers: the triggers of config.json
triggers ==
    << [days |-> {0, 1}, hours |-> {0}, minutes |-> {0, 1}, subreddit |-> None],
       [days |-> {0}, hours |-> {0}, minutes |-> {2}, subreddit |-> "s"] >>

\* datetime.now().weekday(), .hour and .minute
weekday(t) == (t \div 1440) % 7
hour(t) == (t \div 60) % 24
minute(t) == t % 60

NeverExecuted == 42

NotExamined == [idx \in 1..Len(triggers) |-> {}]

\* main, lines 423-425: the loop starts, at a Monday 00:00
InitLoopVars ==
    /\ now = 0
    /\ trigger_executed = [idx \in 1..Len(triggers) |-> NeverExecuted]
    /\ pos = 0
    /\ this_minute = NotExamined

------------------------------------------------------------------------------
(* Behaviours                                                               *)

Init ==
    /\ posts_pickle \in InitHistories
    /\ update_id_pickle = <<>>
    /\ test = FALSE
    /\ commands = _commands
    /\ reddit = "any"
    /\ inbox = <<>>
    /\ pending = <<>>
    /\ call = NoCall
    /\ selected = [x \in Subreddits |-> {}]
    /\ router = NoStep
    /\ cycles = 0
    /\ dispatched = <<>>
    /\ late = {}
    /\ InitLoopVars

Record(c) ==
    IF c.post # EmptyPost
    THEN [selected EXCEPT ![c.sub_reddit] = @ \cup {c.post[1].post_id}]
    ELSE selected

\* main, line 441: a trigger fires and calls send_picture(subreddit, args.test);
\* subreddit None lets random.choice pick one of the configured subreddits.
SendPicture ==
    /\ pending = <<>>
    /\ cycles < MaxCycles
    /\ \E sub_reddit \in Subreddits, fetch \in Answers, send_ok \in BOOLEAN :
         LET r == send_picture(sub_reddit, test, fetch, send_ok, posts_pickle)
         IN  /\ posts_pickle' = r.stored
             /\ call' = r.call
             /\ selected' = Record(r.call)
    /\ cycles' = cycles + 1
    /\ UNCHANGED <<update_id_pickle, test, commands, reddit, inbox, pending, router>>
    /\ UNCHANGED <<dispatched, late, now, trigger_executed, pos, this_minute>>

\* scan budgets of a direct call of get_post, besides the default
Budgets == {0, 1}

\* RedditCrawler.get_post called on its own with an explicit max_retries
GetPost ==
    /\ pending = <<>>
    /\ cycles < MaxCycles
    /\ \E sub_reddit \in Subreddits, l \in Listings, budget \in Budgets :
         LET g == get_post(<<l>>, sub_reddit, budget, posts_pickle)
             c == [op |-> "get_post", sub_reddit |-> sub_reddit, fetch |-> "ok",
                   posts |-> <<l>>, budget |-> budget, before |-> posts_pickle,
                   raised |-> g.raised, post |-> g.post, checked |-> g.checked,
                   sends |-> <<>>, send_ok |-> TRUE]
         IN  /\ posts_pickle' = g.stored
             /\ call' = c
             /\ selected' = Record(c)
    /\ cycles' = cycles + 1
    /\ UNCHANGED <<update_id_pickle, test, commands, reddit, inbox, pending, router>>
    /\ UNCHANGED <<dispatched, late, now, trigger_executed, pos, this_minute>>

Next == SendPicture \/ GetPost

Spec == Init /\ [][Next]_vars

\* the same cycles in a run that finds no posts.pickle
InitFresh == Init /\ posts_pickle = EmptyHistory

SpecFresh == InitFresh /\ [][Next]_vars

------------------------------------------------------------------------------
(* The command router in loop mode                                          *)

InitRouter ==
    /\ posts_pickle = EmptyHistory
    /\ update_id_pickle = <<>>
    /\ test \in BOOLEAN
    /\ commands \in {_commands, AdminCommands}
    /\ reddit = "few"
    /\ inbox = <<>>
    /\ pending = <<>>
    /\ call = NoCall
    /\ selected = [x \in Subreddits |-> {}]
    /\ router = NoStep
    /\ cycles = 0
    /\ dispatched = <<>>
    /\ late = {}
    /\ InitLoopVars

\* a user writes a message; the platform numbers the updates 1, 2, ...
Arrive ==
    /\ pending = <<>>
    /\ Len(inbox) < MaxUpdates
    /\ \E m \in Messages :
         inbox' = Append(inbox, [update_id |-> Len(inbox) + 1, message |-> m])
    /\ late' = IF update_id_pickle # <<>> THEN late \cup {Len(inbox) + 1} ELSE late
    /\ UNCHANGED <<posts_pickle, update_id_pickle, test, commands, reddit,
                   pending, call, selected, router, cycles, dispatched>>
    /\ UNCHANGED loop_vars

\* process_commands up to its for loop (lines 347-362); an empty batch
\* is the return of line 360
Poll ==
    /\ pending = <<>>
    /\ LET p == poll(update_id_pickle, inbox)
       IN  /\ update_id_pickle' = p.update_id
           /\ pending' = p.updates
           /\ router' = [NoStep EXCEPT !.step = "poll", !.flag = test,
                                       !.cursor_before = update_id_pickle,
                                       !.returned = p.returned]
    /\ UNCHANGED <<posts_pickle, test, commands, reddit, inbox, call, selected,
                   cycles, dispatched, late>>
    /\ UNCHANGED loop_vars

\* one iteration of the for loop of process_commands (lines 365-400),
\* the command function included; an exception ends the loop
Dispatch ==
    /\ pending # <<>>
    /\ LET upd == Head(pending)
           d == dispatch(upd, test, commands)
           step == [NoStep EXCEPT !.step = "dispatch", !.update_id = upd.update_id,
                                  !.invoke = d.invoke, !.command = d.command,
                                  !.param = d.param, !.flag = d.flag,
                                  !.cursor_before = update_id_pickle]
       IN  IF d.invoke
           THEN /\ cycles < MaxCycles
                /\ \E fetch \in Answers, send_ok \in BOOLEAN :
                     \E sub_reddit \in (IF d.param = None THEN Subreddits
                                                          ELSE {d.param}) :
                        LET r == send_picture(sub_reddit, d.flag, fetch, send_ok,
                                              posts_pickle)
                        IN  /\ posts_pickle' = r.stored
                            /\ call' = r.call
                            /\ selected' = Record(r.call)
                            /\ router' = [step EXCEPT !.raised = r.call.raised]
                            /\ pending' = IF r.call.raised = "none"
                                          THEN Tail(pending) ELSE <<>>
                /\ cycles' = cycles + 1
           ELSE /\ router' = [step EXCEPT !.raised = d.raised]
                /\ pending' = IF d.raised = "none" THEN Tail(pending) ELSE <<>>
                /\ UNCHANGED <<posts_pickle, call, selected, cycles>>
    /\ dispatched' = Append(dispatched, [update_id |-> Head(pending).update_id,
                                         raised |-> router'.raised,
                                         cursor |-> update_id_pickle[1]])
    /\ UNCHANGED <<update_id_pickle, test, commands, reddit, inbox, late>>
    /\ UNCHANGED loop_vars

NextRouter == Arrive \/ Poll \/ Dispatch

SpecRouter == InitRouter /\ [][NextRouter]_vars

------------------------------------------------------------------------------
(* The scheduling loop of main, in runs in which nobody writes to the bot   *)

InitLoop == InitRouter /\ commands = _commands

\* the clock reaches the next minute
Tick ==
    /\ now < MaxMinutes
    /\ now' = now + 1
    /\ this_minute' = NotExamined
    /\ UNCHANGED <<posts_pickle, update_id_pickle, test, commands, reddit, inbox,
                   pending, call, selected, router, cycles, dispatched, late,
                   trigger_executed, pos>>

\* main, lines 426-427: process_commands finds no batch to process
LoopCommands ==
    /\ pos = 0
    /\ pending = <<>>
    /\ LET p == poll(update_id_pickle, inbox)
       IN  /\ p.updates = <<>>
           /\ update_id_pickle' = p.update_id
           /\ router' = [NoStep EXCEPT !.step = "poll", !.flag = test,
                                       !.cursor_before = update_id_pickle,
                                       !.returned = p.returned]
    /\ pos' = 1
    /\ UNCHANGED <<posts_pickle, test, commands, reddit, inbox, pending, call,
                   selected, cycles, dispatched, late, now, trigger_executed,
                   this_minute>>

\* main, lines 428-441: one iteration of the for loop over the triggers,
\* send_picture included; an exception of send_picture ends main
CheckTrigger ==
    /\ pos \in 1..Len(triggers)
    /\ LET idx == pos
           trigger == triggers[idx]
           time_now == now
           next == IF idx = Len(triggers) THEN 0 ELSE idx + 1
       IN  IF /\ weekday(time_now) \in trigger.days
              /\ hour(time_now) \in trigger.hours
              /\ minute(time_now) \in trigger.minutes
              /\ trigger_executed[idx] # hour(time_now)
           THEN /\ cycles < MaxCycles
                /\ trigger_executed' = [trigger_executed EXCEPT ![idx] = hour(time_now)]
                /\ this_minute' = [this_minute EXCEPT ![idx] = @ \cup {"invoked"}]
                /\ \E fetch \in Answers, send_ok \in BOOLEAN :
                     \E sub_reddit \in (IF trigger.subreddit = None
                                        THEN Subreddits ELSE {trigger.subreddit}) :
                        LET r == send_picture(sub_reddit, test, fetch, send_ok,
                                              posts_pickle)
                        IN  /\ posts_pickle' = r.stored
                            /\ call' = r.call
                            /\ selected' = Record(r.call)
                            /\ pos' = IF r.call.raised = "none" THEN next ELSE -1
                /\ cycles' = cycles + 1
           ELSE /\ this_minute' = [this_minute EXCEPT ![idx] = @ \cup {"skipped"}]
                /\ pos' = next
                /\ UNCHANGED <<posts_pickle, call, selected, cycles, trigger_executed>>
    /\ UNCHANGED <<update_id_pickle, test, commands, reddit, inbox, pending,
                   router, dispatched, late, now>>

NextLoop == Tick \/ LoopCommands \/ CheckTrigger

SpecLoop == InitLoop /\ [][NextLoop]_vars

------------------------------------------------------------------------------
(* What the specification says of a selection, stated over the arguments    *)
(* and the result of the last call                                          *)

Ran == call.op # "none" /\ call.posts # NoData

Candidates == call.posts[1]

\* n = min(length(candidates), max_scan)
ScanLimit == IF Len(Candidates) <= call.budget THEN Len(Candidates) ELSE call.budget

\* a candidate with a title, a media reference and an identifier
WellFormed(e) ==
    /\ e.preview \in {"image", "video"}
    /\ "title" \notin e.missing
    /\ "id" \notin e.missing
    /\ (IF e.preview = "video" THEN "fallback_url" ELSE "url") \notin e.missing

\* the title matches the feed's pattern from its start, if the feed has one
PassesFilter(e, feed) ==
    feed \in DOMAIN filter_regex =>
        \A k \in 1..Len(filter_regex[feed]) :
            k <= Len(e.title) /\ e.title[k] = filter_regex[feed][k]

InHistory(h, feed, id) == \E k \in 1..Len(h[feed]) : h[feed][k] = id

Qualifies(e) ==
    /\ WellFormed(e)
    /\ PassesFilter(e, call.sub_reddit)
    /\ ~InHistory(call.before, call.sub_reddit, e.id)

\* C1: get_post never returns a candidate whose post_id is in the feed's
\* history at the time of the call.
C1_NeverReturnsKnownPost ==
    call.post # EmptyPost =>
        ~InHistory(call.before, call.sub_reddit, call.post[1].post_id)

\* C2: if none of the first n candidates is well-formed, passes the filter
\* and is absent from the history, get_post returns an empty result.
C2_EmptyWhenNoneQualifies ==
    (Ran /\ \A k \in 1..ScanLimit : ~Qualifies(Candidates[k])) =>
        call.post = EmptyPost

\* C3: once a post_id has been selected and recorded for a feed, no later
\* cycle selects it for that feed again.
C3_NoDoubleSend ==
    [][(cycles' = cycles + 1 /\ call'.post # EmptyPost) =>
           call'.post[1].post_id \notin selected[call'.sub_reddit]]_vars

\* C4: every feed's sequence has length <= cap; a record on a sequence of
\* length cap keeps the length and retains the last cap identifiers appended,
\* in their order (the oldest is dropped).
C4_HistoryBounded ==
    /\ \A f \in Subreddits : Len(posts_pickle[f]) <= max_length
    /\ (call.post # EmptyPost /\ Len(call.before[call.sub_reddit]) = max_length) =>
          /\ Len(posts_pickle[call.sub_reddit]) = max_length
          /\ posts_pickle[call.sub_reddit] =
                Tail(call.before[call.sub_reddit]) \o <<call.post[1].post_id>>

\* a record on a full sequence whose oldest identifier differs from the new one
C4_Witness ==
    /\ call.post # EmptyPost
    /\ Len(call.before[call.sub_reddit]) = max_length
    /\ call.before[call.sub_reddit][1] # call.post[1].post_id

\* C5: if the send fails, no history mutation was performed for that cycle.
C5_SendFailureKeepsHistory ==
    (call.op = "send_picture" /\ call.raised = "SendError") =>
        posts_pickle = call.before

C7_FetchFailureIsSoft ==
    (call.op = "send_picture" /\ call.fetch # "ok") =>
        /\ call.raised \in {"none", "SendError"}
        /\ posts_pickle = call.before
        /\ Len(call.sends) = 1
        /\ call.sends[1].msg = NotFoundText

\* C8: when one of the first n candidates qualifies, get_post returns the
\* one with the lowest index among them and examines no candidate after it.
C8_LowestIndexQualifying ==
    Ran =>
        \A k \in 1..ScanLimit :
            (Qualifies(Candidates[k]) /\ \A j \in 1..(k - 1) : ~Qualifies(Candidates[j]))
            => /\ call.post # EmptyPost
               /\ call.post[1].post_id = Candidates[k].id
               /\ call.post[1].title = Candidates[k].title
               /\ call.post[1].sub_reddit = call.sub_reddit
               /\ call.checked = k

\* the second candidate was returned after the first, well-formed and
\* passing the filter, was skipped for being in the history
C8_Witness ==
    /\ Ran
    /\ ScanLimit >= 2
    /\ Qualifies(Candidates[2])
    /\ WellFormed(Candidates[1])
    /\ PassesFilter(Candidates[1], call.sub_reddit)
    /\ InHistory(call.before, call.sub_reddit, Candidates[1].id)
    /\ call.post # EmptyPost
    /\ call.post[1].post_id = Candidates[2].id

------------------------------------------------------------------------------
(* What the specification says of the command router, stated over the last  *)
(* step of process_commands                                                 *)

Dispatched == inbox[router.update_id].message

\* the update is in the configured chat and reads: prefix, command name,
\* and at most one parameter
IsCommand(m, name) ==
    /\ m.chat.type \in {"group", "supergroup"}
    /\ m.chat.id = (IF test THEN "test_group_id" ELSE "group_id")
    /\ Len(m.text) \in {3, 5}
    /\ m.text[1] = activation_prefix
    /\ Lower(m.text[3]) = Lower(name)
    /\ \A k \in 1..Len(m.text) : (m.text[k] = " ") <=> (k \in {2, 4})

OptionalParam(m) == IF Len(m.text) = 5 THEN m.text[5] ELSE None

SenderIsAdmin(m) == m.from.id = "admin"

\* C9: the action of a matched command that requires admin is never invoked
\* for a sender who is not admin; it is invoked with (optional_param,
\* test_flag) when the sender is admin or the command requires no admin.
C9_AdminGate ==
    router.step = "dispatch" =>
        \A k \in 1..Len(commands) :
            IsCommand(Dispatched, commands[k].command_string) =>
                IF commands[k].command_requires_admin /\ ~SenderIsAdmin(Dispatched)
                THEN ~router.invoke
                ELSE /\ router.invoke
                     /\ router.command = commands[k].command_string
                     /\ router.param = OptionalParam(Dispatched)
                     /\ router.flag = test

\* a member who is not admin asked for the admin command: nothing invoked
C9_Witness ==
    /\ router.step = "dispatch"
    /\ \E k \in 1..Len(commands) :
          /\ commands[k].command_requires_admin
          /\ IsCommand(Dispatched, commands[k].command_string)
    /\ ~SenderIsAdmin(Dispatched)
    /\ ~router.invoke

\* C10: when a poll returns one update or none, the stored cursor is left
\* unchanged and no update is dispatched in that cycle.
C10_SingleUpdateDropped ==
    (router.step = "poll" /\ router.returned <= 1) =>
        /\ update_id_pickle = router.cursor_before
        /\ pending = <<>>

\* the poll returned exactly one update, a command of the configured chat
C10_Witness ==
    /\ router.step = "poll"
    /\ router.returned = 1
    /\ \E k \in 1..Len(inbox) :
          /\ (router.cursor_before # <<>> => k >= router.cursor_before[1])
          /\ IsCommand(inbox[k].message, "MakeMeHappy")

------------------------------------------------------------------------------
(* Further statements on the router and on the selection cycle             *)

\* the update is in the configured chat and its text begins with the prefix
HasPrefix(m) ==
    /\ m.chat.type \in {"group", "supergroup"}
    /\ m.chat.id = (IF test THEN "test_group_id" ELSE "group_id")
    /\ m.text # <<>>
    /\ m.text[1] = activation_prefix

\* C11: an update of the configured chat that begins with the prefix but
\* names no registered command (the prefix alone included) invokes no action
\* and raises no error; the rest of the batch is processed.
C11_UnmatchedIsQuiet ==
    (/\ router.step = "dispatch"
     /\ HasPrefix(Dispatched)
     /\ \A k \in 1..Len(commands) :
           ~IsCommand(Dispatched, commands[k].command_string)) =>
        /\ ~router.invoke
        /\ router.raised = "none"
        /\ \A k \in 1..Len(pending) : pending[k].update_id > router.update_id
        /\ \A j \in (router.update_id + 1)..update_id_pickle[1] :
              \E k \in 1..Len(pending) : pending[k].update_id = j

\* C12: every send_picture makes exactly one send attempt to the resolved
\* chat: the media with caption feed_id + ": " + title, as video if is_video
\* and as photo otherwise, or the plain fallback notice when nothing was
\* selected.
C12_OneSendAttempt ==
    call.op = "send_picture" =>
        /\ Len(call.sends) = 1
        /\ call.sends[1].chat_id = (IF test THEN "test_group_id" ELSE "group_id")
        /\ IF call.post # EmptyPost
           THEN /\ call.sends[1].msg = <<call.sub_reddit, ": ">> \o call.post[1].title
                /\ call.sends[1].media = call.post[1].media_url
                /\ call.sends[1].method =
                      (IF call.post[1].is_video THEN "sendVideo" ELSE "sendPhoto")
           ELSE /\ call.sends[1].msg = NotFoundText
                /\ call.sends[1].method = "sendMessage"

\* C13: starting from an empty history, no feed's sequence holds the same
\* post_id twice.
C13_NoDuplicateInHistory ==
    \A f \in Subreddits :
        \A i, j \in 1..Len(posts_pickle[f]) :
            i # j => posts_pickle[f][i] # posts_pickle[f][j]

\* C14: for a feed with a filter rule, every post get_post returns has a
\* title that matches the feed's pattern from its start.
C14_ReturnedPostMatchesFilter ==
    (call.post # EmptyPost /\ call.sub_reddit \in DOMAIN filter_regex) =>
        \A k \in 1..Len(filter_regex[call.sub_reddit]) :
            /\ k <= Len(call.post[1].title)
            /\ call.post[1].title[k] = filter_regex[call.sub_reddit][k]

\* the newest max_length entries of s, in their order
Newest(s) ==
    IF Len(s) <= max_length
    THEN s
    ELSE [k \in 1..max_length |-> s[k + Len(s) - max_length]]

\* C15: a cycle for feed F changes the persisted history in at most one way:
\* a returned post's id is appended to F's sequence, cropped to the cap, the
\* other feeds' sequences staying as they were; an empty result changes
\* nothing.
C15_OneMutationPerCycle ==
    call.op # "none" =>
        IF call.post # EmptyPost
        THEN /\ posts_pickle[call.sub_reddit] =
                   Newest(call.before[call.sub_reddit] \o <<call.post[1].post_id>>)
             /\ \A g \in Subreddits \ {call.sub_reddit} :
                   posts_pickle[g] = call.before[g]
        ELSE posts_pickle = call.before

\* a post was recorded for one feed while the other feed had a history
C15_Witness ==
    /\ call.op = "send_picture"
    /\ call.post # EmptyPost
    /\ call.before[call.sub_reddit] # <<>>
    /\ \E g \in Subreddits \ {call.sub_reddit} : call.before[g] # <<>>

\* C20: get_post examines no candidate at an index >= min(length(candidates),
\* max_scan); what it returns is one of the candidates before that index.
C20_ScanWithinLimit ==
    Ran =>
        /\ call.checked <= ScanLimit
        /\ call.post # EmptyPost =>
              \E k \in 1..ScanLimit : Candidates[k].id = call.post[1].post_id

\* the scan used up the default budget and stopped before a candidate that
\* qualifies
C20_Witness ==
    /\ Ran
    /\ call.budget = max_retries
    /\ Len(Candidates) > call.budget
    /\ call.checked = call.budget
    /\ Qualifies(Candidates[call.budget + 1])
    /\ call.post = EmptyPost

------------------------------------------------------------------------------
(* The cursor and the batches of process_commands                           *)

\* the first update the last poll got from the platform
FirstReturned ==
    IF router.cursor_before = <<>> THEN 1 ELSE router.cursor_before[1]

\* how often the for loop has taken up the update with this id
Count(id) ==
    Cardinality({k \in 1..Len(dispatched) : dispatched[k].update_id = id})

NoRaise == \A k \in 1..Len(dispatched) : dispatched[k].raised = "none"

\* C16: a poll that returns more than one update does not dispatch the first
\* of them, with or without a stored cursor; the first update of a first run
\* is therefore never dispatched at all.
C16_FirstReturnedNeverDispatched ==
    /\ (router.step = "poll" /\ router.returned > 1) =>
          /\ Len(pending) = router.returned - 1
          /\ \A k \in 1..Len(pending) : pending[k].update_id > FirstReturned
    /\ Count(1) = 0

\* a command sent to the configured chat was the first update of the first
\* run; the batch is done and a later poll has found nothing new
C16_Witness ==
    /\ inbox # <<>>
    /\ IsCommand(inbox[1].message, "MakeMeHappy")
    /\ dispatched # <<>>
    /\ pending = <<>>
    /\ router.step = "poll"
    /\ router.returned = 1

\* every update that arrived after a cursor was stored: taken up once when
\* the cursor has passed it, not at all before
ExactlyOnce ==
    \A id \in late :
        /\ Count(id) <= 1
        /\ id > update_id_pickle[1] => Count(id) = 0
        /\ (/\ id <= update_id_pickle[1]
            /\ \A k \in 1..Len(pending) : pending[k].update_id # id) => Count(id) = 1

CursorNeverDecreases ==
    (NoRaise /\ update_id_pickle # <<>>) =>
        /\ update_id_pickle' # <<>>
        /\ update_id_pickle'[1] >= update_id_pickle[1]

\* C17: with a platform that answers all updates from the cursor on in
\* increasing order, and as long as no dispatch raises, the persisted cursor
\* never decreases and every update that arrives after a cursor was stored
\* is dispatched by exactly one poll, never twice and never skipped.
C17_EachLateUpdateOnce ==
    [](NoRaise => ExactlyOnce) /\ [][CursorNeverDecreases]_vars

\* an update arrived after the first batch, was dispatched, and a later
\* poll got it again as the first of its answer
C17_Witness ==
    /\ NoRaise
    /\ \E id \in late : Count(id) = 1 /\ update_id_pickle = <<id>>
    /\ router.step = "poll"
    /\ router.returned = 1

\* C18: the new cursor, the id of the newest returned update, is persisted
\* before any update of the batch is dispatched; so when a dispatch raises,
\* the updates of the batch not yet dispatched are dispatched by no later
\* poll.
C18_CursorBeforeDispatch ==
    /\ pending # <<>> => update_id_pickle = <<pending[Len(pending)].update_id>>
    /\ \A i \in 1..Len(dispatched) :
          /\ dispatched[i].cursor >= dispatched[i].update_id
          /\ dispatched[i].raised # "none" =>
                /\ \A id \in (dispatched[i].update_id + 1)..dispatched[i].cursor :
                      Count(id) = 0
                /\ \A j \in (i + 1)..Len(dispatched) :
                      dispatched[j].update_id > dispatched[i].cursor

\* a dispatch raised with a newer update of its batch still to come, and a
\* later poll has run
C18_Witness ==
    /\ \E i \in 1..Len(dispatched) :
          /\ dispatched[i].raised # "none"
          /\ dispatched[i].update_id < dispatched[i].cursor
    /\ router.step = "poll"
    /\ pending = <<>>

------------------------------------------------------------------------------
(* The triggers of the scheduling loop                                      *)

\* the weekday, hour and minute of t are all in the trigger's sets
Matches(trigger, t) ==
    /\ weekday(t) \in trigger.days
    /\ hour(t) \in trigger.hours
    /\ minute(t) \in trigger.minutes

\* C19: in loop mode, in every clock minute whose weekday, hour and minute
\* are all in a trigger's sets, send_picture is invoked for that trigger
\* (whenever the loop comes by the trigger in that minute); so also at a
\* second configured minute of the same hour.
C19_TriggerFiresInEveryMatchingMinute ==
    \A idx \in 1..Len(triggers) :
        (Matches(triggers[idx], now) /\ this_minute[idx] # {}) =>
            "invoked" \in this_minute[idx]

====
